---------------------------- MODULE Spec2Model ----------------------------
(***************************************************************************)
(* Model of the TOMS ozone acquisition script                              *)
(* src/ledaps/ledapsAncSrc/updatetoms.py: coverage resolution, URL         *)
(* construction, the retrying download loop, per-day candidate resolution, *)
(* the per-year processing and the campaign driver (main).                 *)
(*                                                                         *)
(* A file name of the form  f1_f2_..._fn_YYYYMMDD.txt  is the record       *)
(* [fields |-> <<f1,...,fn>>, date |-> YYYYMMDD]; the fields hold no       *)
(* underscore and no digit-only text.  A directory entry is a name with a  *)
(* flag telling whether it is a directory.                                 *)
(***************************************************************************)
EXTENDS Integers, Sequences, FiniteSets, TLC

\* ------------------------------------------------------------------------
\* Program constants
\* ------------------------------------------------------------------------
ERROR == "ERROR"
SUCCESS == "SUCCESS"
START_YEAR == 1978
SERVER_URL == "https://acd-ext.gsfc.nasa.gov/anonftp/toms"
NIMBUS == "/nimbus7/data/ozone/Y"
EARTHPROBE == "/eptoms/data/ozone/Y"
METEOR3 == "/meteor3/data/ozone/Y"
OMI == "/omi/data/ozone/Y"
\* the retry loop runs while retry_count <= MaxRetries
MaxRetries == 5
\* --today also processes the previous year while day_of_year <= JanDays
JanDays == 31
DaysLeap == 366
DaysCommon == 365

\* ------------------------------------------------------------------------
\* Bounds of the explored inputs
\* ------------------------------------------------------------------------
\* the remote archive answers only for the first MaxDay days of a year;
\* every retrieval of a later day fails
MaxDay == 1
\* full rescans are explored for clocks at most RescanSpan years after
\* START_YEAR
RescanSpan == 1
\* years handed to the coverage resolver on its own
YearLo == 1970
YearHi == 2030
\* longest candidate list handed to resolveFile on its own
MaxCands == 3

\* ------------------------------------------------------------------------
\* Optional values: Python's None against a returned value
\* ------------------------------------------------------------------------
None == [isNone |-> TRUE, val |-> <<>>]
Some(v) == [isNone |-> FALSE, val |-> v]
\* no value either: an exception left the function
Raised(e) == [isNone |-> TRUE, val |-> <<>>, exc |-> e]
HasRaised(r) == "exc" \in DOMAIN r

\* ------------------------------------------------------------------------
\* Calendar
\* ------------------------------------------------------------------------
\* isLeapYear without the century tests
isLeapYearJulian(year) == IF (year % 4) = 0 THEN TRUE ELSE FALSE

isLeapYear(year) ==
    IF (year % 4) = 0
    THEN IF (year % 100) = 0
         THEN IF (year % 400) = 0 THEN TRUE ELSE FALSE
         ELSE TRUE
    ELSE FALSE

\* datetime's Gregorian month lengths
MonthLen(year, m) ==
    IF m = 2 THEN (IF isLeapYear(year) THEN 29 ELSE 28)
    ELSE IF m \in {4, 6, 9, 11} THEN 30 ELSE 31

YearLen(year) == IF isLeapYear(year) THEN 366 ELSE 365

RECURSIVE MonthDay(_, _, _)
\* walk the months of `year` until the remaining day count fits
MonthDay(year, m, d) ==
    IF d <= MonthLen(year, m) THEN <<m, d>>
    ELSE MonthDay(year, m + 1, d - MonthLen(year, m))

RECURSIVE DateStr(_, _)
\* (datetime(year, 1, 1) + timedelta(doy - 1)).strftime("%Y%m%d"), as the
\* number YYYYMMDD
DateStr(year, doy) ==
    IF doy > YearLen(year) THEN DateStr(year + 1, doy - YearLen(year))
    ELSE LET md == MonthDay(year, 1, doy)
         IN  year * 10000 + md[1] * 100 + md[2]

\* ------------------------------------------------------------------------
\* DatasourceResolver
\* ------------------------------------------------------------------------
\* the instrument code buildURL puts in the file name, None for an
\* unknown type
InstCode(type) ==
    IF type = "NIMBUS" THEN Some("n7t")
    ELSE IF type = "EARTHPROBE" THEN Some("epc")
    ELSE IF type = "METEOR3" THEN Some("m3t")
    ELSE IF type = "OMI" THEN Some("omi")
    ELSE None

\* url = serverUrl + basePath + str(year) + '/' + name
Url(code, serverUrl, basePath, year, datestr) ==
    [server |-> serverUrl, base |-> basePath, year |-> year,
     name |-> [fields |-> <<"L3", "ozone", code>>, date |-> datestr]]

\* buildURL with its day loop stopping one day early: range(1, DOY)
buildURLShort(type, serverUrl, basePath, year, DOY) ==
    IF DOY >= 2 /\ InstCode(type).isNone THEN Raised("NameError")
    ELSE Some([doy \in 1..(DOY - 1) |->
                 Url(InstCode(type).val, serverUrl, basePath, year,
                     DateStr(year, doy))])

\* One URL per day 1..DOY, in day order.  The branch for a type that is
\* not categorized logs through `logger`, which buildURL does not bind:
\* it raises NameError on the first day; resolve never asks for such a
\* type.
buildURL(type, serverUrl, basePath, year, DOY) ==
    IF DOY >= 1 /\ InstCode(type).isNone THEN Raised("NameError")
    ELSE Some([doy \in 1..DOY |->
                 Url(InstCode(type).val, serverUrl, basePath, year,
                     DateStr(year, doy))])

\* WithBackup dropping the backup list
WithBackupNone(primary, backup) == primary

\* primary list extended by the backup list when the backup resolves
WithBackup(primary, backup) ==
    IF primary.isNone THEN primary
    ELSE IF HasRaised(backup) THEN backup
    ELSE IF backup.isNone THEN primary
    ELSE Some(primary.val \o backup.val)

\* resolve with the METEOR3/NIMBUS window one year too long
resolveOffByOne(year, DOY) ==
    IF year \in 1978..1990
    THEN buildURL("NIMBUS", SERVER_URL, NIMBUS, year, DOY)
    ELSE IF year \in 1991..1994
    THEN WithBackup(buildURL("METEOR3", SERVER_URL, METEOR3, year, DOY),
                    buildURL("NIMBUS", SERVER_URL, NIMBUS, year, DOY))
    ELSE IF year \in 1996..2003
    THEN buildURL("EARTHPROBE", SERVER_URL, EARTHPROBE, year, DOY)
    ELSE IF year \in 2004..2005
    THEN WithBackup(buildURL("OMI", SERVER_URL, OMI, year, DOY),
                    buildURL("EARTHPROBE", SERVER_URL, EARTHPROBE, year, DOY))
    ELSE IF year >= 2006
    THEN buildURL("OMI", SERVER_URL, OMI, year, DOY)
    ELSE None

\* resolve without the years OMI and EARTHPROBE share
resolveNoOverlap(year, DOY) ==
    IF year \in 1978..1990
    THEN buildURL("NIMBUS", SERVER_URL, NIMBUS, year, DOY)
    ELSE IF year \in 1991..1993
    THEN WithBackup(buildURL("METEOR3", SERVER_URL, METEOR3, year, DOY),
                    buildURL("NIMBUS", SERVER_URL, NIMBUS, year, DOY))
    ELSE IF year = 1994
    THEN buildURL("METEOR3", SERVER_URL, METEOR3, year, DOY)
    ELSE IF year \in 1996..2003
    THEN buildURL("EARTHPROBE", SERVER_URL, EARTHPROBE, year, DOY)
    ELSE IF year >= 2006
    THEN buildURL("OMI", SERVER_URL, OMI, year, DOY)
    ELSE None

resolve(year, DOY) ==
    IF year \in 1978..1990
    THEN buildURL("NIMBUS", SERVER_URL, NIMBUS, year, DOY)
    ELSE IF year \in 1991..1993
    THEN WithBackup(buildURL("METEOR3", SERVER_URL, METEOR3, year, DOY),
                    buildURL("NIMBUS", SERVER_URL, NIMBUS, year, DOY))
    ELSE IF year = 1994
    THEN buildURL("METEOR3", SERVER_URL, METEOR3, year, DOY)
    ELSE IF year \in 1996..2003
    THEN buildURL("EARTHPROBE", SERVER_URL, EARTHPROBE, year, DOY)
    ELSE IF year \in 2004..2005
    THEN WithBackup(buildURL("OMI", SERVER_URL, OMI, year, DOY),
                    buildURL("EARTHPROBE", SERVER_URL, EARTHPROBE, year, DOY))
    ELSE IF year >= 2006
    THEN buildURL("OMI", SERVER_URL, OMI, year, DOY)
    ELSE None


\* ------------------------------------------------------------------------
\* File names and the per-day resolution
\* ------------------------------------------------------------------------
Codes == {"omi", "epc", "m3t", "n7t"}

\* filename.split('_'): the fields, then the text "<date>.txt"
SplitParts(filename) == filename.fields \o <<"date.txt">>

\* a returned value, or the exception that left the function
Ret(v) == [exc |-> "", val |-> v]
Raise(e) == [exc |-> e, val |-> ""]

\* getOzoneSource naming the NIMBUS7 source as the resolver's type does
getOzoneSourceNimbus(filename) ==
    LET parts == SplitParts(filename)
    IN  IF Len(parts) < 3 THEN Raise("IndexError")
        ELSE LET inst == parts[3]
             IN  IF inst = "m3t" THEN Ret("METEOR3")
                 ELSE IF inst = "epc" THEN Ret("EARTHPROBE")
                 ELSE IF inst = "n7t" THEN Ret("NIMBUS")
                 ELSE IF inst = "omi" THEN Ret("OMI")
                 ELSE Raise("NameError")

\* The last branch logs through a name `logger` that is bound neither in
\* the function nor in the module, so it raises NameError before its
\* `return None`; parts[2] of a name with fewer than three parts raises
\* IndexError.
getOzoneSource(filename) ==
    LET parts == SplitParts(filename)
    IN  IF Len(parts) < 3 THEN Raise("IndexError")
        ELSE LET inst == parts[3]
             IN  IF inst = "m3t" THEN Ret("METEOR3")
                 ELSE IF inst = "epc" THEN Ret("EARTHPROBE")
                 ELSE IF inst = "n7t" THEN Ret("NIMBUS7")
                 ELSE IF inst = "omi" THEN Ret("OMI")
                 ELSE Raise("NameError")

\* re.compile('.*_<code>_\d*.txt').search(myfile): the code is a field
\* that follows an underscore and is followed by the date
RegexSearch(code, myfile) ==
    /\ Len(myfile.fields) >= 2
    /\ myfile.fields[Len(myfile.fields)] = code

\* `for myfile in fileList: if regex.search(myfile): return myfile`
FirstMatch(code, fileList) ==
    LET hits == {i \in 1..Len(fileList) : RegexSearch(code, fileList[i])}
    IN  IF hits = {} THEN None
        ELSE Some(fileList[CHOOSE i \in hits : \A j \in hits : i <= j])

\* resolveFile looking for EARTHPROBE files before OMI files
resolveFileSwapped(fileList) ==
    IF ~FirstMatch("epc", fileList).isNone THEN FirstMatch("epc", fileList)
    ELSE IF ~FirstMatch("omi", fileList).isNone
    THEN FirstMatch("omi", fileList)
    ELSE IF ~FirstMatch("m3t", fileList).isNone
    THEN FirstMatch("m3t", fileList)
    ELSE IF ~FirstMatch("n7t", fileList).isNone
    THEN FirstMatch("n7t", fileList)
    ELSE None

resolveFile(fileList) ==
    IF ~FirstMatch("omi", fileList).isNone THEN FirstMatch("omi", fileList)
    ELSE IF ~FirstMatch("epc", fileList).isNone
    THEN FirstMatch("epc", fileList)
    ELSE IF ~FirstMatch("m3t", fileList).isNone
    THEN FirstMatch("m3t", fileList)
    ELSE IF ~FirstMatch("n7t", fileList).isNone
    THEN FirstMatch("n7t", fileList)
    ELSE None

\* fnmatch.fnmatch(myfile, '*' + datestr + ".txt")
DateMatch(myfile, datestr) == myfile.date = datestr

\* every order os.listdir may list a set of names in
Listings(S) ==
    {l \in [1..Cardinality(S) -> S] :
        \A i, j \in 1..Cardinality(S) : i # j => l[i] # l[j]}

\* ------------------------------------------------------------------------
\* Campaign driver helpers (main)
\* ------------------------------------------------------------------------
\* the command line is malformed
ArgsInvalid(o) ==
    (o.today = FALSE) /\ (o.quarterly = FALSE)
        /\ (o.syear = 0 \/ o.eyear = 0)

\* the environment check never finding the variable missing
AncdirMissingNever(env) == FALSE

\* os.environ.get('LEDAPS_AUX_DIR') == None
AncdirMissing(env) == env = FALSE

\* SelectYears with the first-month test excluding day 31
SelectYearsStrict(o, clk) ==
    IF o.today
    THEN IF clk.doy < JanDays THEN <<clk.year - 1, clk.year>>
                             ELSE <<clk.year, clk.year>>
    ELSE IF o.quarterly THEN <<START_YEAR, clk.year>>
    ELSE <<o.syear, o.eyear>>

\* SelectYears with --quarterly looked at before --today
SelectYearsQuarterlyFirst(o, clk) ==
    IF o.quarterly THEN <<START_YEAR, clk.year>>
    ELSE IF o.today
    THEN IF clk.doy <= JanDays THEN <<clk.year - 1, clk.year>>
                              ELSE <<clk.year, clk.year>>
    ELSE <<o.syear, o.eyear>>

\* <<syear, eyear>> as main leaves them before its year loop
SelectYears(o, clk) ==
    IF o.today
    THEN IF clk.doy <= JanDays THEN <<clk.year - 1, clk.year>>
                              ELSE <<clk.year, clk.year>>
    ELSE IF o.quarterly THEN <<START_YEAR, clk.year>>
    ELSE <<o.syear, o.eyear>>

\* DayBound taking every earlier year for a common year
DayBoundCommon(year, clk) ==
    IF year = clk.year THEN clk.doy ELSE DaysCommon

\* day_of_year of getTomsData
DayBound(year, clk) ==
    IF year = clk.year THEN clk.doy
    ELSE IF isLeapYear(year) = TRUE THEN DaysLeap ELSE DaysCommon

\* the retry loop stopping one turn early
RetryAllowedStrict(retry_count) == retry_count < MaxRetries

\* the retry loop's condition on retry_count
RetryAllowed(retry_count) == retry_count <= MaxRetries

\* exit_code = status >> 8
ShiftRight8(status) == status \div 256

\* ------------------------------------------------------------------------
\* Explored inputs
\* ------------------------------------------------------------------------
\* clocks the runs are started at
NowYears == {START_YEAR, START_YEAR + RescanSpan, 1992, 1996, 2005}
NowDoys == {1, JanDays, JanDays + 1}
\* values of --start_year and --end_year (0: not given)
OptYears == {0, 1995, 1996}
\* statuses subprocess.getstatusoutput reports for the converter: the
\* exit code of the command, negative when a signal ended it
ConvStatuses == {0, 1, -9}
\* statuses of wget
WgetStatuses == {0, 1}

Options == [syear : OptYears, eyear : OptYears,
            today : BOOLEAN, quarterly : BOOLEAN]
Clocks == [year : NowYears, doy : NowDoys]

\* the years main's loop visits
YearRange(o, clk) ==
    IF ArgsInvalid(o) THEN {}
    ELSE SelectYears(o, clk)[1] .. SelectYears(o, clk)[2]

\* years the archive holds data for
HasData(year) == year >= START_YEAR /\ year # 1995

\* years of the range that are processed to their last day
LongYears(o, clk) == {y \in YearRange(o, clk) : y # clk.year /\ HasData(y)}
MaxLongYears == 1

\* a directory: absent, or a set of entries
Dir(entries) == [exists |-> TRUE, entries |-> entries]
NoDir == [exists |-> FALSE, entries |-> {}]

\* entries left in a year's staging directory by earlier activity
Entry(fields, date, isdir) ==
    [name |-> [fields |-> fields, date |-> date], isdir |-> isdir]
JunkKinds == {"absent", "empty", "stale", "dir1", "dir2", "alt", "late"}
Junk(kind, year) ==
    LET d == DateStr(year, 1)
    IN  IF kind = "absent" THEN NoDir
        ELSE IF kind = "late"
        THEN Dir({Entry(<<"alt", "ozone", "epc">>, DateStr(year, 2), TRUE)})
        ELSE IF kind = "empty" THEN Dir({})
        ELSE IF kind = "stale"
        THEN Dir({Entry(<<"L3", "ozone", "omi">>, d, FALSE),
                  Entry(<<"L3", "ozone", "xxx">>, d, FALSE)})
        ELSE IF kind = "dir1"
        THEN Dir({Entry(<<"L3", "ozone", "xxx">>, d, TRUE)})
        ELSE IF kind = "dir2"
        THEN Dir({Entry(<<"L3", "ozone", "xxx">>, d, TRUE),
                  Entry(<<"L3", "ozone", "yyy">>, d, TRUE)})
        ELSE Dir({Entry(<<"alt", "n7t">>, d, TRUE),
                  Entry(<<"alt", "epc">>, d, TRUE)})

\* canonical output left by an earlier run: file TOMS_<year><ddd>.hdf as
\* [doy, src, gen]
OutKinds == {"absent", "empty", "old"}
OldOut(kind) ==
    IF kind = "absent" THEN NoDir
    ELSE IF kind = "empty" THEN Dir({})
    ELSE Dir({[doy |-> 1, src |-> "OLD", gen |-> 0]})


\* options that are not looked at are left at their defaults
Canonical(o) ==
    /\ o.today => (~o.quarterly /\ o.syear = 0 /\ o.eyear = 0)
    /\ o.quarterly => (o.syear = 0 /\ o.eyear = 0)

\* the runs explored: no year after the clock's is asked for, a full
\* rescan stays within RescanSpan years of START_YEAR, at most MaxLongYears
\* years are processed to their last day and they have one instrument
\* each, options that are not looked at are set only on the first days of
\* a year or in 1996, and a run that goes beyond the
\* days the archive answers for starts from clean directories, or, with
\* --today, from staging directories that hold one subdirectory; a run
\* of the current year alone may also find a subdirectory named for its
\* second day
Explored(o, clk, junkKind, outKind) ==
    /\ \A y \in YearRange(o, clk) : y <= clk.year
    /\ (o.quarterly /\ ~o.today) => clk.year <= START_YEAR + RescanSpan
    /\ Cardinality(LongYears(o, clk)) <= MaxLongYears
    /\ LongYears(o, clk) # {} => (Canonical(o) /\ clk.doy = 1)
    /\ \A y \in LongYears(o, clk) : Len(resolve(y, 1).val) = 1
    /\ ~Canonical(o) => (clk.year = 1996 \/ clk.doy <= MaxDay)
    /\ (LongYears(o, clk) # {} \/ clk.doy > MaxDay) =>
          /\ outKind = "absent"
          /\ \/ junkKind = "absent"
             \/ junkKind = "dir1" /\ o.today /\ clk.doy <= MaxDay
             \/ junkKind = "late" /\ LongYears(o, clk) = {}

\* directories of the model's file system, one pair per year that main's
\* loop can visit from a clock and a command line of the explored kind
FsYears ==
    UNION {YearRange(oc[1], oc[2]) :
             oc \in {x \in {o \in Options : Canonical(o)}
                            \X {c \in Clocks : c.doy = 1} :
                        /\ \A y \in YearRange(x[1], x[2]) : y <= x[2].year
                        /\ x[1].quarterly =>
                              x[2].year <= START_YEAR + RescanSpan}}

InitFs(junkKind, outKind) ==
    [dl |-> [y \in FsYears |-> Junk(junkKind, y)],
     out |-> [y \in FsYears |-> OldOut(outKind)]]

\* ------------------------------------------------------------------------
\* State
\* ------------------------------------------------------------------------
VARIABLES
    options,      \* the parsed command line
    ancdir,       \* TRUE when LEDAPS_AUX_DIR is set
    now,          \* datetime.datetime.now(): [year, doy]
    scen,         \* the initial directory contents: [junk, out]
    fs,           \* staging (dl) and output (out) directory of each year
    pc,           \* position of the program
    mainRet,      \* "" while running, then what main returned or raised
    syear, eyear, \* main's year range
    yr,           \* main's loop variable
    day_of_year,  \* getTomsData's day bound
    urlList,      \* downloadToms' URL list
    urlIdx,       \* index of the URL being retrieved
    retry_count,  \* downloadToms' retry counter
    doy,          \* getTomsData's loop variable
    nAttempts,    \* wget calls made so far for the URL at urlIdx
    lastUrl,      \* the URL left last: [year, idx, attempts, status]
    wgetCalls,    \* TRUE once wget was called
    dlStatus,     \* what downloadToms returned for year yr, "" before
    convLog,      \* converter invocations, in order
    yearLog,      \* getTomsData's returns, in order
    callLog,      \* the years getTomsData was called with, in order
    probe         \* a function applied on its own: arguments and result

vars == <<options, ancdir, now, scen, fs, pc, mainRet, syear, eyear, yr,
          day_of_year, urlList, urlIdx, retry_count, doy, nAttempts,
          lastUrl, wgetCalls, dlStatus, convLog, yearLog, callLog, probe>>

inputVars == <<options, ancdir, now, scen, probe>>
dlVars == <<urlList, urlIdx, retry_count, nAttempts, lastUrl, wgetCalls,
           dlStatus>>

NoUrl == [year |-> 0, idx |-> 0, attempts |-> 0, status |-> 0]

NoProbe == [op |-> "none"]

\* the program before main's first statement
Boot ==
    /\ fs = InitFs(scen.junk, scen.out)
    /\ mainRet = ""
    /\ syear = options.syear
    /\ eyear = options.eyear
    /\ yr = 0
    /\ day_of_year = 0
    /\ urlList = <<>>
    /\ urlIdx = 0
    /\ retry_count = 0
    /\ doy = 0
    /\ nAttempts = 0
    /\ lastUrl = NoUrl
    /\ wgetCalls = FALSE
    /\ dlStatus = ""
    /\ convLog = <<>>
    /\ yearLog = <<>>
    /\ callLog = <<>>

Init ==
    /\ options \in Options
    /\ ancdir \in BOOLEAN
    /\ now \in Clocks
    /\ scen \in [junk : JunkKinds, out : OutKinds]
    /\ Explored(options, now, scen.junk, scen.out)
    /\ pc = "main"
    /\ probe = NoProbe
    /\ Boot

\* ------------------------------------------------------------------------
\* main, up to its year loop
\* ------------------------------------------------------------------------
MainStart ==
    /\ pc = "main"
    /\ IF ArgsInvalid(options) \/ AncdirMissing(ancdir)
       THEN /\ mainRet' = ERROR
            /\ pc' = "done"
            /\ UNCHANGED <<syear, eyear, yr>>
       ELSE /\ syear' = SelectYears(options, now)[1]
            /\ eyear' = SelectYears(options, now)[2]
            /\ yr' = SelectYears(options, now)[1]
            /\ pc' = "years"
            /\ UNCHANGED mainRet
    /\ UNCHANGED <<inputVars, fs, day_of_year, dlVars, doy, convLog,
                   yearLog, callLog>>

\* the year loop is over
MainReturn ==
    /\ pc = "years"
    /\ yr > eyear
    /\ mainRet' = SUCCESS
    /\ pc' = "done"
    /\ UNCHANGED <<inputVars, fs, syear, eyear, yr, day_of_year, dlVars,
                   doy, convLog, yearLog, callLog>>

\* ------------------------------------------------------------------------
\* downloadToms
\* ------------------------------------------------------------------------
\* PrepareDir leaving an existing directory as it is
PrepareDirKeep(d) == IF ~d.exists THEN Dir({}) ELSE d

\* PrepareDir doing nothing at all
PrepareDirLazy(d) == d

\* the destination directory is created, or its regular files are removed
PrepareDir(d) ==
    IF ~d.exists THEN Dir({})
    ELSE Dir({e \in d.entries : e.isdir})

\* EnsureDir starting every run from an empty output directory
EnsureDirFresh(d) == Dir({})

\* getTomsData's output directory is created when absent
EnsureDir(d) == IF ~d.exists THEN Dir({}) ELSE d

\* what wget can answer for a URL
WgetOutcomes(url) ==
    IF \E d \in 1..MaxDay : url.name.date = DateStr(url.year, d)
    THEN WgetStatuses ELSE {1}

\* wget stores the URL's last path component in the directory; a name
\* that is already taken is left as it is
Store(d, url) ==
    IF \E e \in d.entries : e.name = url.name THEN d
    ELSE Dir(d.entries \cup {[name |-> url.name, isdir |-> FALSE]})

\* main calls getTomsData for year yr: day bound, then downloadToms'
\* directory preparation and coverage lookup
YearStart ==
    /\ pc = "years"
    /\ yr <= eyear
    /\ LET bound == DayBound(yr, now)
           r == resolve(yr, bound)
       IN  /\ day_of_year' = bound
           /\ IF HasRaised(r)
              THEN \* the exception leaves downloadToms, getTomsData, main
                   /\ mainRet' = r.exc
                   /\ pc' = "done"
                   /\ fs' = [fs EXCEPT !.dl[yr] = PrepareDir(@)]
                   /\ UNCHANGED <<yr, yearLog, urlList, urlIdx, doy,
                                  dlStatus>>
              ELSE IF r.isNone
              THEN \* downloadToms and getTomsData return ERROR, main warns
                   /\ dlStatus' = ERROR
                   /\ yearLog' = Append(yearLog, <<yr, ERROR>>)
                   /\ yr' = yr + 1
                   /\ fs' = [fs EXCEPT !.dl[yr] = PrepareDir(@)]
                   /\ UNCHANGED <<pc, mainRet, urlList, urlIdx, doy>>
              ELSE /\ urlList' = r.val
                   /\ IF r.val = <<>>
                      THEN /\ pc' = "days"
                           /\ urlIdx' = 0
                           /\ doy' = 1
                           /\ dlStatus' = SUCCESS
                           /\ fs' = [fs EXCEPT
                                       !.dl[yr] = PrepareDir(@),
                                       !.out[yr] = EnsureDir(@)]
                      ELSE /\ pc' = "wget"
                           /\ urlIdx' = 1
                           /\ dlStatus' = ""
                           /\ fs' = [fs EXCEPT !.dl[yr] = PrepareDir(@)]
                           /\ UNCHANGED doy
                   /\ UNCHANGED <<yr, yearLog, mainRet>>
    /\ callLog' = Append(callLog, yr)
    /\ retry_count' = 0
    /\ nAttempts' = 0
    /\ UNCHANGED <<inputVars, syear, eyear, lastUrl, wgetCalls, convLog>>

\* UrlDone with a failed URL ending the batch
UrlDoneAbort(dl, status, attempts) ==
    /\ lastUrl' = [year |-> yr, idx |-> urlIdx, attempts |-> attempts,
                   status |-> status]
    /\ retry_count' = 0
    /\ nAttempts' = 0
    /\ IF urlIdx < Len(urlList) /\ status = 0
       THEN /\ urlIdx' = urlIdx + 1
            /\ pc' = "wget"
            /\ fs' = [fs EXCEPT !.dl[yr] = dl]
            /\ UNCHANGED <<doy, dlStatus>>
       ELSE /\ pc' = "days"
            /\ doy' = 1
            /\ dlStatus' = SUCCESS
            /\ fs' = [fs EXCEPT !.dl[yr] = dl, !.out[yr] = EnsureDir(@)]
            /\ UNCHANGED urlIdx

\* The URL at urlIdx is left with `status` after `attempts` wget calls and
\* the staging directory `dl`: the loop goes to the next URL, or
\* downloadToms returns SUCCESS and getTomsData creates the output
\* directory and enters its day loop.
UrlDone(dl, status, attempts) ==
    /\ lastUrl' = [year |-> yr, idx |-> urlIdx, attempts |-> attempts,
                   status |-> status]
    /\ retry_count' = 0
    /\ nAttempts' = 0
    /\ IF urlIdx < Len(urlList)
       THEN /\ urlIdx' = urlIdx + 1
            /\ pc' = "wget"
            /\ fs' = [fs EXCEPT !.dl[yr] = dl]
            /\ UNCHANGED <<doy, dlStatus>>
       ELSE /\ pc' = "days"
            /\ doy' = 1
            /\ dlStatus' = SUCCESS
            /\ fs' = [fs EXCEPT !.dl[yr] = dl, !.out[yr] = EnsureDir(@)]
            /\ UNCHANGED urlIdx

\* the first wget call for a URL
WgetFirst ==
    /\ pc = "wget"
    /\ \E retval \in WgetOutcomes(urlList[urlIdx]) :
         IF retval # 0 /\ RetryAllowed(1)
         THEN /\ retry_count' = 1
              /\ nAttempts' = 1
              /\ pc' = "retry"
              /\ UNCHANGED <<fs, urlIdx, doy, lastUrl, dlStatus>>
         ELSE UrlDone(IF retval = 0 THEN Store(fs.dl[yr], urlList[urlIdx])
                                    ELSE fs.dl[yr],
                      retval, 1)
    /\ wgetCalls' = TRUE
    /\ UNCHANGED <<inputVars, mainRet, syear, eyear, yr, day_of_year,
                   urlList, convLog, yearLog, callLog>>

\* one turn of the retry loop: sleep, wget, retry_count += 1
WgetRetry ==
    /\ pc = "retry"
    /\ \E retval \in WgetOutcomes(urlList[urlIdx]) :
         IF retval # 0 /\ RetryAllowed(retry_count + 1)
         THEN /\ retry_count' = retry_count + 1
              /\ nAttempts' = nAttempts + 1
              /\ UNCHANGED <<fs, pc, urlIdx, doy, lastUrl, dlStatus>>
         ELSE UrlDone(IF retval = 0 THEN Store(fs.dl[yr], urlList[urlIdx])
                                    ELSE fs.dl[yr],
                      retval, nAttempts + 1)
    /\ wgetCalls' = TRUE
    /\ UNCHANGED <<inputVars, mainRet, syear, eyear, yr, day_of_year,
                   urlList, convLog, yearLog, callLog>>

\* ------------------------------------------------------------------------
\* getTomsData: the day loop and the cleanup
\* ------------------------------------------------------------------------
\* the converter writes the output file when it exits with 0
Convert(out, day, src, status) ==
    IF status = 0
    THEN Dir({f \in out.entries : f.doy # day}
             \cup {[doy |-> day, src |-> src, gen |-> 1]})
    ELSE out

\* getTomsData leaving an existing output file where it is
RemoveOldNever(out, day) == out

\* os.path.isfile(fullOutputPath) => os.remove(fullOutputPath)
RemoveOld(out, day) == Dir({f \in out.entries : f.doy # day})

\* one turn of the day loop
ConvertDay ==
    /\ pc = "days"
    /\ doy <= day_of_year
    /\ LET datestr == DateStr(yr, doy)
           found == {e.name : e \in {x \in fs.dl[yr].entries :
                                        DateMatch(x.name, datestr)}}
       IN  \E fileList \in Listings(found) :
             LET nfiles == Len(fileList)
                 tomsfile == IF nfiles = 1 THEN Some(fileList[1])
                             ELSE resolveFile(fileList)
             IN  IF nfiles = 0 \/ tomsfile.isNone
                 THEN \* warning, continue
                      /\ doy' = doy + 1
                      /\ UNCHANGED <<fs, pc, mainRet, convLog>>
                 ELSE LET ozoneSource == getOzoneSource(tomsfile.val)
                      IN  IF ozoneSource.exc # ""
                          THEN \* the exception leaves getTomsData and main
                               /\ mainRet' = ozoneSource.exc
                               /\ pc' = "done"
                               /\ UNCHANGED <<fs, doy, convLog>>
                          ELSE \E status \in ConvStatuses :
                                 /\ fs' = [fs EXCEPT !.out[yr] =
                                             Convert(RemoveOld(@, doy), doy,
                                                     ozoneSource.val, status)]
                                 /\ convLog' = Append(convLog,
                                       [year |-> yr, doy |-> doy,
                                        input |-> tomsfile.val,
                                        src |-> ozoneSource.val,
                                        status |-> status,
                                        warned |-> ShiftRight8(status) # 0])
                                 /\ doy' = doy + 1
                                 /\ UNCHANGED <<pc, mainRet>>
    /\ UNCHANGED <<inputVars, syear, eyear, yr, day_of_year, dlVars,
                   yearLog, callLog>>

\* Cleanup emptying the staging directory of every year
CleanupAll ==
    /\ pc = "days"
    /\ doy > day_of_year
    /\ LET entries == fs.dl[yr].entries
           files == {e \in entries : ~e.isdir}
       IN  IF files = entries
           THEN /\ fs' = [fs EXCEPT !.dl = [y \in DOMAIN @ |-> Dir({})]]
                /\ yearLog' = Append(yearLog, <<yr, SUCCESS>>)
                /\ yr' = yr + 1
                /\ pc' = "years"
                /\ UNCHANGED mainRet
           ELSE \E gone \in SUBSET files :
                  /\ fs' = [fs EXCEPT !.dl[yr] = Dir(entries \ gone)]
                  /\ mainRet' = "OSError"
                  /\ pc' = "done"
                  /\ UNCHANGED <<yr, yearLog>>
    /\ UNCHANGED <<inputVars, syear, eyear, day_of_year, dlVars, doy,
                   convLog, callLog>>

\* Cleanup starting while the last day is still to be handled
CleanupEarly ==
    /\ pc = "days"
    /\ doy >= day_of_year
    /\ LET entries == fs.dl[yr].entries
           files == {e \in entries : ~e.isdir}
       IN  IF files = entries
           THEN /\ fs' = [fs EXCEPT !.dl[yr] = Dir({})]
                /\ yearLog' = Append(yearLog, <<yr, SUCCESS>>)
                /\ yr' = yr + 1
                /\ pc' = "years"
                /\ UNCHANGED mainRet
           ELSE \E gone \in SUBSET files :
                  /\ fs' = [fs EXCEPT !.dl[yr] = Dir(entries \ gone)]
                  /\ mainRet' = "OSError"
                  /\ pc' = "done"
                  /\ UNCHANGED <<yr, yearLog>>
    /\ UNCHANGED <<inputVars, syear, eyear, day_of_year, dlVars, doy,
                   convLog, callLog>>

\* the day loop is over: every entry of the staging directory is removed
\* with os.remove, which raises OSError on a directory; the entries
\* listed before the first directory are gone by then
Cleanup ==
    /\ pc = "days"
    /\ doy > day_of_year
    /\ LET entries == fs.dl[yr].entries
           files == {e \in entries : ~e.isdir}
       IN  IF files = entries
           THEN /\ fs' = [fs EXCEPT !.dl[yr] = Dir({})]
                /\ yearLog' = Append(yearLog, <<yr, SUCCESS>>)
                /\ yr' = yr + 1
                /\ pc' = "years"
                /\ UNCHANGED mainRet
           ELSE \E gone \in SUBSET files :
                  /\ fs' = [fs EXCEPT !.dl[yr] = Dir(entries \ gone)]
                  /\ mainRet' = "OSError"
                  /\ pc' = "done"
                  /\ UNCHANGED <<yr, yearLog>>
    /\ UNCHANGED <<inputVars, syear, eyear, day_of_year, dlVars, doy,
                   convLog, callLog>>

Next ==
    \/ MainStart
    \/ YearStart
    \/ WgetFirst
    \/ WgetRetry
    \/ ConvertDay
    \/ Cleanup
    \/ MainReturn

Spec == Init /\ [][Next]_vars

\* the interpreter runs the next statement whenever there is one, and the
\* external commands (wget, convert_ozone) end
SpecLive == Init /\ [][Next]_vars /\ WF_vars(Next)

TypeOK ==
    /\ pc \in {"main", "years", "wget", "retry", "days", "done"}
    /\ mainRet \in {"", SUCCESS, ERROR, "NameError", "IndexError", "OSError"}
    /\ retry_count \in 0..(MaxRetries + 1)

\* ------------------------------------------------------------------------
\* Functions applied on their own
\* ------------------------------------------------------------------------
\* the program is not running
Idle ==
    /\ options = [syear |-> 0, eyear |-> 0, today |-> FALSE,
                  quarterly |-> FALSE]
    /\ ancdir = FALSE
    /\ now = [year |-> START_YEAR, doy |-> 1]
    /\ scen = [junk |-> "absent", out |-> "absent"]
    /\ pc = "idle"
    /\ Boot

progVars == <<options, ancdir, now, scen, fs, pc, mainRet, syear, eyear, yr,
              day_of_year, urlList, urlIdx, retry_count, doy, nAttempts,
              lastUrl, wgetCalls, dlStatus, convLog, yearLog, callLog>>

\* DatasourceResolver().resolve(year, DOY)
InitResolve ==
    /\ Idle
    /\ probe \in [op : {"resolve"}, year : YearLo..YearHi,
                  DOY : 0..(MaxDay + 1), done : {FALSE}, res : {None}]

ApplyResolve ==
    /\ probe.op = "resolve"
    /\ ~probe.done
    /\ probe' = [probe EXCEPT !.done = TRUE,
                              !.res = resolve(probe.year, probe.DOY)]
    /\ UNCHANGED progVars

SpecResolve == InitResolve /\ [][ApplyResolve]_vars

\* self.buildURL(type, SERVER_URL, basePath, year, DOY) with the base path
\* resolve passes for the type
BuildTypes == {"NIMBUS", "EARTHPROBE", "METEOR3", "OMI", "TOMS"}
BuildYears == {1900, 1996, 1999, 2000}
MaxBuildDay == 366
BasePathOf(type) ==
    IF type = "NIMBUS" THEN NIMBUS
    ELSE IF type = "EARTHPROBE" THEN EARTHPROBE
    ELSE IF type = "METEOR3" THEN METEOR3
    ELSE OMI

InitBuildURL ==
    /\ Idle
    /\ probe \in [op : {"buildURL"}, type : BuildTypes, year : BuildYears,
                  DOY : 0..MaxBuildDay, done : {FALSE}, res : {None}]

ApplyBuildURL ==
    /\ probe.op = "buildURL"
    /\ ~probe.done
    /\ probe' = [probe EXCEPT !.done = TRUE,
                              !.res = buildURL(probe.type, SERVER_URL,
                                               BasePathOf(probe.type),
                                               probe.year, probe.DOY)]
    /\ UNCHANGED progVars

SpecBuildURL == InitBuildURL /\ [][ApplyBuildURL]_vars

\* isLeapYear(year)
LeapLo == 1800
LeapHi == 2400

InitLeap ==
    /\ Idle
    /\ probe \in [op : {"isLeapYear"}, year : LeapLo..LeapHi,
                  done : {FALSE}, res : {FALSE}]

ApplyLeap ==
    /\ probe.op = "isLeapYear"
    /\ ~probe.done
    /\ probe' = [probe EXCEPT !.done = TRUE,
                              !.res = isLeapYear(probe.year)]
    /\ UNCHANGED progVars

SpecLeap == InitLeap /\ [][ApplyLeap]_vars

\* resolveFile(fileList) on the listing of one day's candidates
CandDate == DateStr(2005, 1)
CandNames ==
    {[fields |-> <<"L3", "ozone", c>>, date |-> CandDate] :
        c \in Codes \cup {"xxx"}}
    \cup {[fields |-> <<"alt", c>>, date |-> CandDate] : c \in {"omi", "n7t"}}

FileLists ==
    UNION {{l \in [1..n -> CandNames] :
              \A i, j \in 1..n : i # j => l[i] # l[j]} : n \in 0..MaxCands}

InitResolveFile ==
    /\ Idle
    /\ probe \in [op : {"resolveFile"}, fileList : FileLists,
                  done : {FALSE}, res : {None}]

ApplyResolveFile ==
    /\ probe.op = "resolveFile"
    /\ ~probe.done
    /\ probe' = [probe EXCEPT !.done = TRUE,
                              !.res = resolveFile(probe.fileList)]
    /\ UNCHANGED progVars

SpecResolveFile == InitResolveFile /\ [][ApplyResolveFile]_vars

\* ------------------------------------------------------------------------
\* do_lasrc.py: SurfaceReflectance().runSr(xml_infile, process_sr, write_toa)
\* ------------------------------------------------------------------------
\* l8_prefixes_collection
L8Prefixes == {"LC08", "LO08"}

\* statuses subprocess.getstatusoutput hands back: 0, an exit code, or the
\* negated number of the signal that ended the command
SrStatuses == {0, 1, -9}

\* base names of XML files: the first four characters, the number of groups
\* separated by underscores, and the 4th group cut as [0:4], [4:6], [6:8]
\* (numeric = int() accepts the three pieces)
SceneDate(y, m, d) == [numeric |-> TRUE, year |-> y, month |-> m, day |-> d]
SceneNames ==
    {[prefix |-> "LC08", groups |-> 7, date |-> SceneDate(2013, 6, 30)],
     [prefix |-> "LO08", groups |-> 7, date |-> SceneDate(2016, 12, 31)],
     [prefix |-> "LE07", groups |-> 7, date |-> SceneDate(2013, 6, 30)],
     [prefix |-> "LC08", groups |-> 1, date |-> SceneDate(2013, 6, 30)],
     [prefix |-> "LC08", groups |-> 7, date |-> SceneDate(2013, 2, 30)],
     [prefix |-> "LC08", groups |-> 7,
      date |-> [numeric |-> FALSE, year |-> 0, month |-> 0, day |-> 0]]}

\* myday.strftime("%j")
RECURSIVE DayOfYear(_, _, _)
DayOfYear(y, m, d) ==
    IF m = 1 THEN d ELSE MonthLen(y, m - 1) + DayOfYear(y, m - 1, d)

\* lines 136-142: the auxiliary file of a collection scene name
AuxFile(name) ==
    IF name.groups < 4 THEN Raised("IndexError")
    ELSE IF ~name.date.numeric THEN Raised("ValueError")
    ELSE IF ~(/\ name.date.year \in 1..9999
              /\ name.date.month \in 1..12
              /\ name.date.day \in 1..MonthLen(name.date.year,
                                               name.date.month))
         THEN Raised("ValueError")
    ELSE Some([year |-> name.date.year,
               doy |-> DayOfYear(name.date.year, name.date.month,
                                 name.date.day)])

\* lines 175-185: the lasrc command
LasrcCmd(p) ==
    [tool |-> "lasrc",
     aux |-> p.aux,
     process_sr |-> IF p.process_sr = "False" THEN "false" ELSE "true",
     write_toa |-> p.write_toa]

\* the call: arg = xml_infile was passed (else the command line is read),
\* xml = the XML file named (given = FALSE: no -i option), cwd = the current
\* working directory of the process
InitRunSr ==
    /\ Idle
    /\ probe \in
         {p \in [op : {"runSr"}, pc : {"start"}, arg : BOOLEAN,
                 xml : [given : BOOLEAN, isfile : BOOLEAN,
                        writable : BOOLEAN, dir : {"cwd", "scene"},
                        name : SceneNames],
                 process_sr : {"None", "True", "False"},
                 write_toa : BOOLEAN,
                 cwd : {"cwd"}, mydir : {""}, changed : {FALSE},
                 aux : {None}, calls : {<<>>}, ret : {""}] :
            p.arg => p.xml.given}

\* lines 60-148: up to the choice of the auxiliary file
SrStart ==
    /\ probe.op = "runSr"
    /\ probe.pc = "start"
    /\ \E st \in SrStatuses :
         LET calls == IF probe.arg THEN <<>>
                      ELSE <<[cmd |-> [tool |-> "lasrc --version"],
                              status |-> st]>>
             aux == AuxFile(probe.xml.name)
         IN  /\ probe.arg => st = 0
             /\ probe' =
                  IF ~probe.xml.given
                  THEN [probe EXCEPT !.pc = "done", !.calls = calls,
                                     !.ret = "SystemExit"]
                  ELSE IF ~probe.xml.isfile
                  THEN [probe EXCEPT !.pc = "done", !.calls = calls,
                                     !.ret = ERROR]
                  ELSE IF ~probe.xml.writable
                  THEN [probe EXCEPT !.pc = "done", !.calls = calls,
                                     !.mydir = probe.cwd, !.ret = ERROR]
                  ELSE IF probe.xml.name.prefix \notin L8Prefixes
                  THEN [probe EXCEPT !.pc = "done", !.calls = calls,
                                     !.mydir = probe.cwd, !.changed = TRUE,
                                     !.cwd = probe.cwd, !.ret = ERROR]
                  ELSE IF HasRaised(aux)
                  THEN [probe EXCEPT !.pc = "done", !.calls = calls,
                                     !.mydir = probe.cwd, !.changed = TRUE,
                                     !.cwd = probe.xml.dir,
                                     !.ret = aux.exc]
                  ELSE [probe EXCEPT !.pc = "angles", !.calls = calls,
                                     !.mydir = probe.cwd, !.changed = TRUE,
                                     !.cwd = probe.xml.dir, !.aux = aux]
    /\ UNCHANGED progVars

\* lines 150-160: create_l8_angle_bands
SrAngles ==
    /\ probe.op = "runSr"
    /\ probe.pc = "angles"
    /\ \E status \in SrStatuses :
         LET exit_code == ShiftRight8(status)
             calls == Append(probe.calls,
                             [cmd |-> [tool |-> "create_l8_angle_bands"],
                              status |-> status])
         IN  probe' = IF exit_code # 0
                      THEN [probe EXCEPT !.calls = calls, !.pc = "done",
                                         !.cwd = probe.mydir, !.ret = ERROR]
                      ELSE [probe EXCEPT !.calls = calls, !.pc = "mask"]
    /\ UNCHANGED progVars

\* lines 162-171: mask_per_pixel_angles.py
SrMask ==
    /\ probe.op = "runSr"
    /\ probe.pc = "mask"
    /\ \E status \in SrStatuses :
         LET exit_code == ShiftRight8(status)
             calls == Append(probe.calls,
                             [cmd |-> [tool |-> "mask_per_pixel_angles.py"],
                              status |-> status])
         IN  probe' = IF exit_code # 0
                      THEN [probe EXCEPT !.calls = calls, !.pc = "done",
                                         !.ret = ERROR]
                      ELSE [probe EXCEPT !.calls = calls, !.pc = "lasrc"]
    /\ UNCHANGED progVars

\* lines 173-201: lasrc, then back to the directory of the call
SrLasrc ==
    /\ probe.op = "runSr"
    /\ probe.pc = "lasrc"
    /\ \E status \in SrStatuses :
         LET exit_code == ShiftRight8(status)
             calls == Append(probe.calls,
                             [cmd |-> LasrcCmd(probe), status |-> status])
         IN  probe' = [probe EXCEPT !.calls = calls, !.pc = "done",
                                    !.cwd = probe.mydir,
                                    !.ret = IF exit_code # 0 THEN ERROR
                                            ELSE SUCCESS]
    /\ UNCHANGED progVars

NextRunSr == SrStart \/ SrAngles \/ SrMask \/ SrLasrc

SpecRunSr == InitRunSr /\ [][NextRunSr]_vars

\* ------------------------------------------------------------------------
\* The coverage table and the instrument tags, as the design states them
\* ------------------------------------------------------------------------
\* instrument label of a code in a file name
LabelOf(code) ==
    IF code = "n7t" THEN "NIMBUS7"
    ELSE IF code = "epc" THEN "EARTHPROBE"
    ELSE IF code = "m3t" THEN "METEOR3"
    ELSE IF code = "omi" THEN "OMI"
    ELSE "unrecognized"

\* the tag of a file name <prefix>_<code>_<YYYYMMDD>.txt
TagOf(name) == LabelOf(name.fields[Len(name.fields)])

\* primary and backup instrument of a year, <<>> without coverage
Coverage(year) ==
    IF year >= 1978 /\ year <= 1990 THEN <<"NIMBUS7">>
    ELSE IF year >= 1991 /\ year <= 1993 THEN <<"METEOR3", "NIMBUS7">>
    ELSE IF year = 1994 THEN <<"METEOR3">>
    ELSE IF year >= 1996 /\ year <= 2003 THEN <<"EARTHPROBE">>
    ELSE IF year >= 2004 /\ year <= 2005 THEN <<"OMI", "EARTHPROBE">>
    ELSE IF year >= 2006 THEN <<"OMI">>
    ELSE <<>>

\* the instruments of a URL list, in the order they first appear
InstrumentsOf(list) ==
    LET first == {i \in 1..Len(list) :
                    \A j \in 1..(i - 1) :
                       TagOf(list[j].name) # TagOf(list[i].name)}
    IN  [k \in 1..Cardinality(first) |->
           TagOf(list[CHOOSE i \in first :
                        Cardinality({j \in first : j < i}) = k - 1].name)]

\* C1: for every year resolve selects the instruments of the coverage
\* table, in the table's order, and answers None (a value) exactly for the
\* years without coverage: 1995 and the years before 1978.
C1_CoverageTable ==
    (probe.op = "resolve" /\ probe.done) =>
        /\ probe.res.isNone <=> (probe.year = 1995 \/ probe.year < 1978)
        /\ (~probe.res.isNone /\ probe.DOY >= 1) =>
               InstrumentsOf(probe.res.val) = Coverage(probe.year)

C1_Witness ==
    /\ probe.op = "resolve" /\ probe.done
    /\ probe.year = 1992 /\ probe.DOY >= 1
    /\ InstrumentsOf(probe.res.val) = <<"METEOR3", "NIMBUS7">>

\* rank of a tag in OMI > EARTHPROBE > METEOR3 > NIMBUS7
Rank(tag) ==
    IF tag = "OMI" THEN 1
    ELSE IF tag = "EARTHPROBE" THEN 2
    ELSE IF tag = "METEOR3" THEN 3
    ELSE IF tag = "NIMBUS7" THEN 4
    ELSE 5

\* positions of the candidates that carry a recognized tag
Recognized(fileList) ==
    {i \in 1..Len(fileList) : Rank(TagOf(fileList[i])) < 5}

\* C4: resolveFile returns the first candidate, in list order, whose tag is
\* the highest-priority tag present (OMI > EARTHPROBE > METEOR3 > NIMBUS7),
\* None when no candidate carries a recognized tag, and never a file that
\* is not in the list.
C4_PriorityOrder ==
    (probe.op = "resolveFile" /\ probe.done) =>
        LET l == probe.fileList
            rec == Recognized(l)
        IN  IF rec = {} THEN probe.res.isNone
            ELSE /\ ~probe.res.isNone
                 /\ \E i \in rec :
                      /\ probe.res.val = l[i]
                      /\ \A j \in rec :
                           \/ Rank(TagOf(l[j])) > Rank(TagOf(l[i]))
                           \/ (Rank(TagOf(l[j])) = Rank(TagOf(l[i]))
                                 /\ i <= j)

C4_Witness ==
    /\ probe.op = "resolveFile" /\ probe.done
    /\ Len(probe.fileList) = 3
    /\ TagOf(probe.fileList[1]) = "NIMBUS7"
    /\ TagOf(probe.fileList[2]) = "OMI"
    /\ TagOf(probe.fileList[3]) = "METEOR3"
    /\ probe.res = Some(probe.fileList[2])

\* ------------------------------------------------------------------------
\* The download loop
\* ------------------------------------------------------------------------
\* C2: a URL is attempted until its first success and at most 6 times
\* (1 + 5 retries); a URL that fails every time is given up after exactly
\* 6 attempts, and the next URL of the list is processed after it.
C2_SixAttempts ==
    [][(pc \in {"wget", "retry"}) =>
         \/ /\ pc' = "retry"
            /\ urlIdx' = urlIdx
            /\ nAttempts' = nAttempts + 1
            /\ nAttempts' < 6
            /\ lastUrl' = lastUrl
         \/ /\ lastUrl'.idx = urlIdx
            /\ lastUrl'.attempts = nAttempts + 1
            /\ lastUrl'.attempts <= 6
            /\ lastUrl'.status # 0 => lastUrl'.attempts = 6
            /\ urlIdx < Len(urlList) => (pc' = "wget" /\ urlIdx' = urlIdx + 1)
            /\ urlIdx = Len(urlList) => pc' = "days"]_vars

C2_Witness ==
    /\ pc = "wget"
    /\ lastUrl.year = yr
    /\ lastUrl.idx = urlIdx - 1
    /\ lastUrl.status # 0
    /\ lastUrl.attempts = 6

\* C3: in a year with coverage downloadToms attempts the URLs of the
\* resolved list one after the other from the first to the last, each at
\* least once, whatever the earlier URLs answered, and returns SUCCESS
\* after the last one; it never returns ERROR and never stops early.
C3_BatchNeverAborts ==
    [][/\ (pc = "years" /\ yr <= eyear /\ Coverage(yr) # <<>>) =>
            /\ pc' = "wget"
            /\ urlIdx' = 1
            /\ urlList' # <<>>
            /\ dlStatus' = ""
       /\ (pc \in {"wget", "retry"}) =>
            /\ wgetCalls'
            /\ urlList' = urlList
            /\ mainRet' = ""
            /\ pc = "wget" => (nAttempts' = 1 \/ lastUrl'.attempts = 1)
            /\ \/ (pc' = "retry" /\ urlIdx' = urlIdx /\ dlStatus' = "")
               \/ /\ pc' = "wget" /\ urlIdx' = urlIdx + 1
                  /\ urlIdx < Len(urlList)
                  /\ lastUrl'.idx = urlIdx /\ lastUrl'.attempts >= 1
                  /\ dlStatus' = ""
               \/ /\ pc' = "days" /\ urlIdx = Len(urlList)
                  /\ lastUrl'.idx = urlIdx /\ lastUrl'.attempts >= 1
                  /\ dlStatus' = SUCCESS]_vars

C3_Witness ==
    /\ pc = "days"
    /\ dlStatus = SUCCESS
    /\ Len(urlList) >= 2
    /\ lastUrl.year = yr
    /\ lastUrl.idx = Len(urlList)
    /\ lastUrl.status # 0
    /\ fs.dl[yr].entries = {}

\* ------------------------------------------------------------------------
\* The day loop
\* ------------------------------------------------------------------------
\* names staged for day d of year y
Staged(y, d) ==
    {e.name : e \in {x \in fs.dl[y].entries : x.name.date = DateStr(y, d)}}

\* the file of an instrument for day d of year y
FileOf(label, y, d) ==
    [fields |-> <<"L3", "ozone", CHOOSE c \in Codes : LabelOf(c) = label>>,
     date |-> DateStr(y, d)]

\* C5: a day whose staged candidates carry no recognized instrument tag
\* (one candidate or several) is skipped: the converter is not invoked,
\* the day loop goes on to the next day and the run is not terminated.
C5_UnrecognizedDaySkipped ==
    [][(/\ pc = "days" /\ doy <= day_of_year
        /\ Staged(yr, doy) # {}
        /\ \A n \in Staged(yr, doy) : TagOf(n) = "unrecognized") =>
         /\ convLog' = convLog
         /\ pc' = "days"
         /\ doy' = doy + 1
         /\ mainRet' = ""]_vars

\* the step invoked the converter on `name` with source label `label`
Invoked(name, label) ==
    /\ Len(convLog') = Len(convLog) + 1
    /\ convLog'[Len(convLog')].year = yr
    /\ convLog'[Len(convLog')].doy = doy
    /\ convLog'[Len(convLog')].input = name
    /\ convLog'[Len(convLog')].src = label

\* C6: in a year with a primary and a backup instrument, a day for which
\* only the backup's file is staged is converted from that file with the
\* backup's label, and a day for which both files are staged is converted
\* from the primary's file with the primary's label.
C6_BackupFallback ==
    [][(pc = "days" /\ doy <= day_of_year /\ Len(Coverage(yr)) = 2) =>
         LET prim == FileOf(Coverage(yr)[1], yr, doy)
             back == FileOf(Coverage(yr)[2], yr, doy)
         IN  /\ Staged(yr, doy) = {back} => Invoked(back, Coverage(yr)[2])
             /\ Staged(yr, doy) = {prim, back} =>
                    Invoked(prim, Coverage(yr)[1])]_vars

C6_Witness ==
    /\ pc = "days"
    /\ yr = 2005
    /\ \E i \in 1..Len(convLog) :
         /\ convLog[i].year = 2005
         /\ convLog[i].src = "EARTHPROBE"
         /\ convLog[i].input = FileOf("EARTHPROBE", 2005, convLog[i].doy)
         /\ Staged(2005, convLog[i].doy) = {convLog[i].input}

\* ------------------------------------------------------------------------
\* The campaign driver
\* ------------------------------------------------------------------------
\* the invocation is malformed, or LEDAPS_AUX_DIR is unset
Malformed ==
    ~options.today /\ ~options.quarterly
        /\ (options.syear = 0 \/ options.eyear = 0)
ConfigError == Malformed \/ ~ancdir

\* the program has left main's argument handling
Started == pc \notin {"main", "idle"}

\* the years getTomsData has returned for, in order
YearsDone == [i \in 1..Len(yearLog) |-> yearLog[i][1]]

\* the years s..e in ascending order
Ascending(s, e) == [i \in 1..(IF e >= s THEN e - s + 1 ELSE 0) |-> s + i - 1]

\* C7: with --today on day-of-year d of year Y the processed range is
\* [Y-1, Y] when d <= 31 and [Y, Y] when d > 31.
C7_TodayRange ==
    (Started /\ options.today /\ ancdir) =>
        /\ eyear = now.year
        /\ now.doy <= 31 => syear = now.year - 1
        /\ now.doy > 31 => syear = now.year
        /\ pc \in {"wget", "retry", "days"} => yr \in syear..eyear
        /\ mainRet = SUCCESS => YearsDone = Ascending(syear, eyear)

C7_Witness ==
    /\ options.today
    /\ now.doy = 31
    /\ mainRet = SUCCESS
    /\ YearsDone = <<now.year - 1, now.year>>

\* the range --today stands for, from the clock alone
TodayRange(clk) ==
    IF clk.doy <= 31 THEN <<clk.year - 1, clk.year>>
    ELSE <<clk.year, clk.year>>

\* C8: --today decides the range from the clock alone whatever the other
\* options are; --quarterly without --today gives 1978..current year
\* whatever the explicit years are; the explicit pair is used only when
\* neither flag is set.
C8_ModePrecedence ==
    (Started /\ ~ConfigError) =>
        <<syear, eyear>> =
            IF options.today THEN TodayRange(now)
            ELSE IF options.quarterly THEN <<1978, now.year>>
            ELSE <<options.syear, options.eyear>>

C8_Witness ==
    /\ Started
    /\ options.today /\ options.quarterly
    /\ options.syear # 0 /\ options.eyear # 0
    /\ <<syear, eyear>> = TodayRange(now)

\* C9: main returns ERROR exactly on a configuration error and SUCCESS in
\* every other case, whatever was skipped or failed.
C9_ExitStatus ==
    pc = "done" =>
        /\ mainRet = ERROR <=> ConfigError
        /\ ~ConfigError => mainRet = SUCCESS

\* C10: on a configuration error main ends with ERROR before any year is
\* processed: no wget call, no converter call, no change to a staging or
\* output directory.
C10_ConfigErrorAborts ==
    (Started /\ ConfigError) =>
        /\ pc = "done"
        /\ mainRet = ERROR
        /\ ~wgetCalls
        /\ convLog = <<>>
        /\ yearLog = <<>>
        /\ fs = InitFs(scen.junk, scen.out)

C10_Witness ==
    /\ pc = "done"
    /\ mainRet = ERROR
    /\ ~ancdir
    /\ options.today
    /\ scen.junk = "dir1"

\* C11: main calls getTomsData exactly once for each year of the selected
\* inclusive range, in ascending order, whatever the earlier years ended
\* with: at every moment the years called so far are the first years of
\* the range in order, and when main has ended without a configuration
\* error they are the whole range.
C11_EveryYearOnce ==
    (Started /\ ~ConfigError) =>
        /\ callLog = Ascending(syear, syear + Len(callLog) - 1)
        /\ Len(callLog) <= Len(Ascending(syear, eyear))
        /\ pc = "done" => callLog = Ascending(syear, eyear)

\* ------------------------------------------------------------------------
\* The canonical output
\* ------------------------------------------------------------------------
\* the files TOMS_<y><d>.hdf of an output directory
OutFiles(out, d) == {f \in out.entries : f.doy = d}

\* the step invoked the converter
Converting == Len(convLog') = Len(convLog) + 1

\* C12: when the converter is invoked for a day, the output file an
\* earlier run left for that day is removed; when the converter succeeds
\* the year's output directory holds exactly one file for the day, the new
\* run's; the files of the other days are left alone and no day ever has
\* two files.
C12_OverwriteExactly ==
    [][Converting =>
         LET call == convLog'[Len(convLog')]
             new == fs'.out[yr]
         IN  /\ call.year = yr /\ call.doy = doy
             /\ \A f \in OutFiles(new, doy) : f.gen = 1
             /\ call.status = 0 =>
                    OutFiles(new, doy) =
                        {[doy |-> doy, src |-> call.src, gen |-> 1]}
             /\ \A d \in 1..DaysLeap :
                    /\ d # doy => OutFiles(new, d) = OutFiles(fs.out[yr], d)
                    /\ Cardinality(OutFiles(new, d)) <= 1]_vars

C12_Witness ==
    /\ scen.out = "old"
    /\ Len(convLog) = 1
    /\ convLog[1].status = 0
    /\ fs.out[convLog[1].year].entries =
          {[doy |-> 1, src |-> convLog[1].src, gen |-> 1]}

\* C13: when the converter ends with a non-zero exit code for a day,
\* getTomsData detects it and logs the warning for that year and day, and
\* the day loop goes on to the next day without ending the year or the
\* run.
C13_ConverterFailureDetected ==
    [][(Converting /\ convLog'[Len(convLog')].status # 0) =>
         /\ convLog'[Len(convLog')].warned
         /\ pc' = "days"
         /\ doy' = doy + 1
         /\ mainRet' = ""]_vars

\* ------------------------------------------------------------------------
\* The outcome of a year
\* ------------------------------------------------------------------------
\* no instrument covers the year
NoCoverage(year) == year < 1978 \/ year = 1995

\* C14: getTomsData returns ERROR exactly for the years without coverage
\* (before 1978, and 1995): such a year returns ERROR at once, and a year
\* that has entered its download or its day loop returns nothing but
\* SUCCESS, whatever its retrievals, days and conversions ended with.
C14_FailedIffNoCoverage ==
    [][/\ \A i \in 1..Len(yearLog') :
            yearLog'[i][2] = ERROR <=> NoCoverage(yearLog'[i][1])
       /\ (pc = "years" /\ yr <= eyear /\ NoCoverage(yr)) =>
            yearLog' = Append(yearLog, <<yr, ERROR>>)
       /\ (pc \in {"wget", "retry", "days"}) =>
            /\ ~NoCoverage(yr)
            /\ yearLog' \in {yearLog, Append(yearLog, <<yr, SUCCESS>>)}]_vars

C14_Witness ==
    /\ yearLog = <<<<1995, ERROR>>, <<1996, SUCCESS>>>>
    /\ lastUrl.year = 1996
    /\ lastUrl.status # 0
    /\ fs.out[1996].entries = {}

\* C15: for a year with coverage the cleanup step empties the year's
\* staging directory whatever it held, subdirectories included, and
\* getTomsData returns SUCCESS with the directory empty.
C15_CleanupEmptiesStaging ==
    [][(pc = "days" /\ doy > day_of_year) =>
         /\ fs'.dl[yr].entries = {}
         /\ yearLog' = Append(yearLog, <<yr, SUCCESS>>)]_vars

\* ------------------------------------------------------------------------
\* The URL builder and the calendar
\* ------------------------------------------------------------------------
\* the Gregorian leap-year rule
LeapRule(y) == (y % 4 = 0) /\ ((y % 100 # 0) \/ (y % 400 = 0))

\* days of year y before each month
DaysBefore(y) ==
    LET l == IF LeapRule(y) THEN 1 ELSE 0
    IN  <<0, 31, 59 + l, 90 + l, 120 + l, 151 + l, 181 + l, 212 + l,
          243 + l, 273 + l, 304 + l, 334 + l>>

RECURSIVE CalendarDate(_, _)
\* the date YYYYMMDD of the d-th day counted from January 1 of year y
CalendarDate(y, d) ==
    LET len == IF LeapRule(y) THEN 366 ELSE 365
    IN  IF d > len THEN CalendarDate(y + 1, d - len)
        ELSE LET m == CHOOSE k \in 1..12 :
                        /\ DaysBefore(y)[k] < d
                        /\ k < 12 => d <= DaysBefore(y)[k + 1]
             IN  y * 10000 + m * 100 + (d - DaysBefore(y)[m])

\* code and base path of an instrument type
CodeOf(type) ==
    IF type = "NIMBUS" THEN "n7t"
    ELSE IF type = "EARTHPROBE" THEN "epc"
    ELSE IF type = "METEOR3" THEN "m3t"
    ELSE "omi"
PathOf(type) ==
    IF type = "NIMBUS" THEN "/nimbus7/data/ozone/Y"
    ELSE IF type = "EARTHPROBE" THEN "/eptoms/data/ozone/Y"
    ELSE IF type = "METEOR3" THEN "/meteor3/data/ozone/Y"
    ELSE "/omi/data/ozone/Y"

\* C16: for a recognized instrument, a year and a bound D >= 0 buildURL
\* returns exactly D URLs; the i-th is the file L3_ozone_<code>_<date>.txt
\* of day i of the year under the instrument's base path and the year,
\* and the dates increase strictly along the list.
C16_BuildURL ==
    (probe.op = "buildURL" /\ probe.done /\ probe.type # "TOMS") =>
        /\ ~probe.res.isNone
        /\ Len(probe.res.val) = probe.DOY
        /\ \A i \in 1..Len(probe.res.val) :
              /\ probe.res.val[i] =
                    [server |-> "https://acd-ext.gsfc.nasa.gov/anonftp/toms",
                     base |-> PathOf(probe.type),
                     year |-> probe.year,
                     name |-> [fields |-> <<"L3", "ozone",
                                            CodeOf(probe.type)>>,
                               date |-> CalendarDate(probe.year, i)]]
              /\ i > 1 => probe.res.val[i - 1].name.date
                             < probe.res.val[i].name.date

C16_Witness ==
    /\ probe.op = "buildURL" /\ probe.done
    /\ probe.type = "EARTHPROBE" /\ probe.year = 2000 /\ probe.DOY = 366
    /\ Len(probe.res.val) = 366
    /\ probe.res.val[60].name.date = 20000229
    /\ probe.res.val[366].name.date = 20001231

\* C17: isLeapYear(y) is true exactly when y is divisible by 4 and not by
\* 100, or divisible by 400; 2000 and 2004 are leap years, 1900 is not.
C17_LeapYear ==
    (probe.op = "isLeapYear" /\ probe.done) =>
        /\ probe.res = TRUE <=>
              /\ probe.year % 4 = 0
              /\ (probe.year % 100 # 0 \/ probe.year % 400 = 0)
        /\ probe.res \in BOOLEAN
        /\ probe.year \in {2000, 2004} => probe.res = TRUE
        /\ probe.year = 1900 => probe.res = FALSE

C17_Witness ==
    /\ probe.op = "isLeapYear" /\ probe.done
    /\ probe.year = 1900
    /\ probe.res = FALSE

\* ------------------------------------------------------------------------
\* The phases of a year
\* ------------------------------------------------------------------------
\* converter invocations made for year y, as day numbers in call order
DaysConverted(log, y) ==
    LET idx == {i \in 1..Len(log) : log[i].year = y}
    IN  [k \in 1..Cardinality(idx) |->
           log[CHOOSE i \in idx : Cardinality({j \in idx : j < i}) = k - 1].doy]

\* C18: within a year with coverage the phases follow one another as
\* Downloading, PerDayConvert, Cleanup, Done: while URLs are retrieved the
\* converter has not been invoked for the year; once the day loop has
\* begun no URL is retrieved any more; the days are handled one after the
\* other in increasing order with at most one converter invocation each;
\* and no staged file is deleted before the last day has been handled.
C18_PhaseOrder ==
    [][/\ (pc \in {"wget", "retry"}) =>
            /\ DaysConverted(convLog', yr) = <<>>
            /\ pc' \in {"wget", "retry", "days"}
            /\ pc' = "days" => (doy' = 1 /\ urlIdx = Len(urlList))
       /\ (pc = "days") =>
            /\ pc' \in {"days", "years", "done"}
            /\ <<lastUrl', nAttempts', urlIdx'>> = <<lastUrl, nAttempts, urlIdx>>
            /\ doy <= day_of_year =>
                  /\ doy' = doy + 1 \/ (pc' = "done" /\ mainRet' # "")
                  /\ yearLog' = yearLog
            /\ doy > day_of_year => (pc' # "days" /\ convLog' = convLog)
       /\ Converting =>
            LET days == DaysConverted(convLog', yr)
            IN  /\ days[Len(days)] = doy
                /\ \A k \in 1..(Len(days) - 1) : days[k] < days[k + 1]
       /\ (pc \in {"wget", "retry"} \/ (pc = "days" /\ doy <= day_of_year)) =>
            fs.dl[yr].entries \subseteq fs'.dl[yr].entries]_vars

C18_Witness ==
    /\ Len(convLog) = 2
    /\ convLog[1].year = convLog[2].year
    /\ convLog[1].doy = 1 /\ convLog[2].doy = 2
    /\ pc = "days"
    /\ doy > day_of_year
    /\ \E e \in fs.dl[yr].entries : ~e.isdir

\* the step is part of the processing of year yr
InYear == (pc = "years" /\ yr <= eyear) \/ pc \in {"wget", "retry", "days"}

\* C19: one year is processed at a time.  A step of year yr touches no
\* staging or output directory but that year's, retrieves and converts
\* for that year only, and getTomsData is called for the next year only
\* after every earlier call has returned, that is after the retrievals,
\* the conversions and the cleanup of the year before.
C19_OneYearAtATime ==
    [][/\ InYear =>
            /\ \A y \in DOMAIN fs.dl :
                  y # yr => (fs'.dl[y] = fs.dl[y] /\ fs'.out[y] = fs.out[y])
            /\ lastUrl' # lastUrl => lastUrl'.year = yr
            /\ Converting => convLog'[Len(convLog')].year = yr
            /\ yr' \in {yr, yr + 1}
            /\ yr' = yr + 1 =>
                  /\ pc' = "years"
                  /\ Len(yearLog') = Len(yearLog) + 1
                  /\ yearLog'[Len(yearLog')][1] = yr
       /\ ~InYear => (fs' = fs /\ convLog' = convLog /\ lastUrl' = lastUrl)
       /\ callLog' # callLog =>
            /\ pc = "years"
            /\ Len(yearLog) = Len(callLog)
            /\ callLog' = Append(callLog, yr)
            /\ \A i \in 1..Len(convLog) : convLog[i].year < yr
            /\ lastUrl.year < yr]_vars

C19_Witness ==
    /\ Len(yearLog) = 2
    /\ yearLog[1][2] = SUCCESS /\ yearLog[2][2] = SUCCESS
    /\ Len(convLog) = 2
    /\ convLog[1].year = yearLog[1][1]
    /\ convLog[2].year = yearLog[2][1]
    /\ fs.dl[yearLog[1][1]] = Dir({})
    /\ fs.dl[yearLog[2][1]] = Dir({})

\* ------------------------------------------------------------------------
\* The day bound
\* ------------------------------------------------------------------------
\* the bound the design gives year y on the clock clk
BoundOf(y, clk) ==
    IF y = clk.year THEN clk.doy
    ELSE IF LeapRule(y) THEN 366 ELSE 365

\* C20: the day bound of a year is the current day-of-year for the
\* current year, else 366 for a leap year and 365 for a common year; the
\* URL list holds one URL per instrument for each day 1..bound, ending
\* with the bound's date, and the day loop handles the days 1..bound and
\* ends right after the bound.
C20_DayBound ==
    [][(pc \in {"wget", "retry", "days"}) =>
         /\ day_of_year = BoundOf(yr, now)
         /\ Len(urlList) = Len(Coverage(yr)) * BoundOf(yr, now)
         /\ \A k \in 1..Len(Coverage(yr)) :
               /\ urlList[(k - 1) * BoundOf(yr, now) + 1].name.date
                     = CalendarDate(yr, 1)
               /\ urlList[k * BoundOf(yr, now)].name.date
                     = CalendarDate(yr, BoundOf(yr, now))
         /\ pc = "days" =>
               /\ doy \in 1..(BoundOf(yr, now) + 1)
               /\ Converting => doy <= BoundOf(yr, now)
               /\ pc' = "years" => doy = BoundOf(yr, now) + 1
               /\ doy = BoundOf(yr, now) + 1 => pc' # "days"]_vars

C20_Witness ==
    /\ pc = "days"
    /\ yr = 2005 /\ now = [year |-> 2005, doy |-> 32]
    /\ day_of_year = 32
    /\ Len(urlList) = 64
    /\ doy = 33
    /\ Len(convLog) = 1

\* ------------------------------------------------------------------------
\* The staging directory
\* ------------------------------------------------------------------------
\* the regular files of a directory
RegularFiles(d) == {e \in d.entries : ~e.isdir}

\* C21: downloadToms removes every regular file of the staging directory
\* before the year's first retrieval, a regular file enters the directory
\* only as the file of the URL a successful retrieval of this run just
\* fetched, and the day loop adds none: every regular file the per-day
\* resolution is offered is the file of a URL of this run's list.
C21_StaleDataGuard ==
    [][/\ (pc = "years" /\ yr <= eyear) => RegularFiles(fs'.dl[yr]) = {}
       /\ (pc \in {"wget", "retry"}) =>
            /\ RegularFiles(fs'.dl[yr]) \ RegularFiles(fs.dl[yr])
                  \subseteq {[name |-> urlList[urlIdx].name, isdir |-> FALSE]}
            /\ RegularFiles(fs'.dl[yr]) # RegularFiles(fs.dl[yr]) =>
                  (lastUrl'.idx = urlIdx /\ lastUrl'.status = 0)
       /\ (pc = "days" /\ doy <= day_of_year) =>
            /\ fs'.dl = fs.dl
            /\ \A e \in RegularFiles(fs.dl[yr]) :
                  \E i \in 1..Len(urlList) : urlList[i].name = e.name]_vars

C21_Witness ==
    /\ scen.junk = "stale"
    /\ pc = "days"
    /\ yr = 1996
    /\ fs.dl[1996].entries =
          {[name |-> FileOf("EARTHPROBE", 1996, 1), isdir |-> FALSE]}

\* C22: an output file that exists is removed only by the step that
\* invokes the converter for the same year and day; a day that is skipped
\* (no candidate, candidates that cannot be resolved) or that ends the run
\* on an undeterminable source leaves every output file as it was.
C22_OutputFrame ==
    [][/\ \A y \in DOMAIN fs.out :
            \A f \in fs.out[y].entries :
               f \notin fs'.out[y].entries =>
                  (Converting /\ pc = "days" /\ y = yr /\ f.doy = doy)
       /\ (pc = "days" /\ doy <= day_of_year /\ ~Converting) =>
            fs'.out = fs.out]_vars

C22_Witness ==
    /\ scen.out = "old"
    /\ pc = "days"
    /\ doy = 2
    /\ convLog = <<>>
    /\ Staged(yr, 1) = {}
    /\ fs.out[yr].entries = {[doy |-> 1, src |-> "OLD", gen |-> 0]}

\* ------------------------------------------------------------------------
\* Primary and backup instruments
\* ------------------------------------------------------------------------
\* the file name L3_ozone_<code>_<date>.txt of an instrument and a day
NameOf(label, y, d) ==
    [fields |-> <<"L3", "ozone", CHOOSE c \in Codes : LabelOf(c) = label>>,
     date |-> CalendarDate(y, d)]

\* C23: in a year with a primary and a backup instrument the URL list of
\* day bound D has 2*D entries, the primary's URLs of days 1..D followed
\* by the backup's URLs of days 1..D, and the download loop goes from each
\* URL to the next one whatever the retrieval ended with, so the backup
\* URL of every day is attempted after the primary ones, retrieved or not.
C23_BackupAlwaysFetched ==
    [][(pc \in {"wget", "retry"} /\ Len(Coverage(yr)) = 2) =>
         LET D == BoundOf(yr, now)
         IN  /\ Len(urlList) = 2 * D
             /\ \A i \in 1..D :
                   /\ urlList[i].name = NameOf(Coverage(yr)[1], yr, i)
                   /\ urlList[D + i].name = NameOf(Coverage(yr)[2], yr, i)
             /\ urlList' = urlList
             /\ \/ pc' = "retry" /\ urlIdx' = urlIdx
                \/ pc' = "wget" /\ urlIdx' = urlIdx + 1 /\ urlIdx < 2 * D
                \/ pc' = "days" /\ urlIdx = 2 * D]_vars

C23_Witness ==
    /\ yr = 2005
    /\ pc = "wget"
    /\ urlIdx = day_of_year + 1
    /\ day_of_year > 1
    /\ [name |-> NameOf("OMI", 2005, 1), isdir |-> FALSE]
          \in fs.dl[2005].entries
    /\ urlList[urlIdx].name = NameOf("EARTHPROBE", 2005, 1)

\* C24: the call of getTomsData for a year without coverage makes no
\* retrieval and no conversion and leaves every output directory as it
\* is (none is created), but the year's staging directory exists after
\* it, without the regular files it held and with its subdirectories; the
\* year returns ERROR, and nothing touches its directories later in the
\* run.
C24_NoCoverageEffects ==
    [][/\ (pc = "years" /\ yr <= eyear /\ NoCoverage(yr)) =>
            /\ fs'.dl[yr].exists
            /\ fs'.dl[yr].entries = {e \in fs.dl[yr].entries : e.isdir}
            /\ \A y \in DOMAIN fs.dl : y # yr => fs'.dl[y] = fs.dl[y]
            /\ fs'.out = fs.out
            /\ convLog' = convLog
            /\ <<lastUrl', wgetCalls'>> = <<lastUrl, wgetCalls>>
            /\ pc' = "years"
            /\ yr' = yr + 1
            /\ yearLog' = Append(yearLog, <<yr, ERROR>>)
       /\ \A i \in 1..Len(yearLog) :
            yearLog[i][2] = ERROR =>
               /\ fs'.dl[yearLog[i][1]] = fs.dl[yearLog[i][1]]
               /\ fs'.out[yearLog[i][1]] = fs.out[yearLog[i][1]]]_vars

C24_Witness ==
    /\ scen = [junk |-> "stale", out |-> "absent"]
    /\ mainRet = SUCCESS
    /\ Len(yearLog) = 2
    /\ yearLog[1] = <<1995, ERROR>>
    /\ fs.dl[1995] = Dir({})
    /\ ~fs.out[1995].exists
    /\ fs.out[1996].exists

\* ------------------------------------------------------------------------
\* Termination
\* ------------------------------------------------------------------------
\* C25: whatever the retrievals and the conversions end with, every run
\* ends with main returning: main returns ERROR or SUCCESS after finitely
\* many steps.
C25_MainReturns == <>(pc = "done" /\ mainRet \in {SUCCESS, ERROR})

\* ------------------------------------------------------------------------
\* runSr: working directory and tool order
\* ------------------------------------------------------------------------
\* the processing commands runSr has run, in order (the version query of
\* the command-line mode is not one of them)
SrTools(p) ==
    LET proc == SelectSeq(p.calls, LAMBDA c : c.cmd.tool # "lasrc --version")
    IN  [i \in 1..Len(proc) |-> proc[i].cmd.tool]

SrStatusesOf(p) ==
    LET proc == SelectSeq(p.calls, LAMBDA c : c.cmd.tool # "lasrc --version")
    IN  [i \in 1..Len(proc) |-> proc[i].status]

ToolOrder == <<"create_l8_angle_bands", "mask_per_pixel_angles.py", "lasrc">>

\* C26: once runSr has changed into the XML file's directory, every return
\* (SUCCESS or ERROR) leaves the process in the directory it was called in.
C26_CwdRestored ==
    (/\ probe.op = "runSr" /\ probe.pc = "done"
     /\ probe.changed /\ probe.ret \in {SUCCESS, ERROR})
        => probe.cwd = probe.mydir

\* C27: runSr runs create_l8_angle_bands, mask_per_pixel_angles.py and lasrc
\* in that order; a tool is run only after every tool before it ended with
\* status 0; a non-zero status of any tool makes runSr return ERROR, and
\* SUCCESS is returned only after all three ended with status 0.
C27_ToolOrder ==
    (probe.op = "runSr" /\ probe.pc = "done") =>
        LET tools == SrTools(probe)
            sts == SrStatusesOf(probe)
        IN  /\ Len(tools) <= 3
            /\ \A i \in 1..Len(tools) : tools[i] = ToolOrder[i]
            /\ \A i \in 1..Len(tools) : i < Len(tools) => sts[i] = 0
            /\ (\E i \in 1..Len(tools) : sts[i] # 0) => probe.ret = ERROR
            /\ probe.ret = SUCCESS =>
                  (Len(tools) = 3 /\ \A i \in 1..3 : sts[i] = 0)

=============================================================================
